---- MODULE Spec2Model ----
(***************************************************************************)
(* A model of ibackupy.Backup (src/ibackupy/backup.py) and of the part of  *)
(* the demo that lists applications (src/demo/home.py).                    *)
(*                                                                         *)
(* Text (SQL statements, catalog strings, fileIDs) is a sequence of        *)
(* one-character strings, so that string formatting, slicing, SQL          *)
(* tokenisation and LIKE matching are computed character by character.     *)
(* Directory and file names of the backup layout are atomic strings.       *)
(***************************************************************************)
EXTENDS Integers, Sequences, FiniteSets, TLC

(***************************************************************************)
(* Characters                                                              *)
(***************************************************************************)
UpperChars == <<"A","B","C","D","E","F","G","H","I","J","K","L","M",
                "N","O","P","Q","R","S","T","U","V","W","X","Y","Z">>

LowerChars == <<"a","b","c","d","e","f","g","h","i","j","k","l","m",
                "n","o","p","q","r","s","t","u","v","w","x","y","z">>

DigitChars == <<"0","1","2","3","4","5","6","7","8","9">>

Range(s) == {s[i] : i \in DOMAIN s}

IsDigit(c) == c \in Range(DigitChars)

IsIdChar(c) == c \in Range(UpperChars) \cup Range(LowerChars) \cup Range(DigitChars) \cup {"_"}

\* ASCII case folding, as the LIKE operator and SQL keywords apply it.
Fold(c) ==
    IF c \in Range(UpperChars)
    THEN LowerChars[CHOOSE i \in DOMAIN UpperChars : UpperChars[i] = c]
    ELSE c

FoldText(s) == [i \in DOMAIN s |-> Fold(s[i])]

DigitVal(c) == (CHOOSE i \in DOMAIN DigitChars : DigitChars[i] = c) - 1

\* The decimal text of a natural number (Python's and SQLite's formatting
\* of an integer).
RECURSIVE DecimalText(_)
DecimalText(n) ==
    IF n < 10 THEN <<DigitChars[n + 1]>>
    ELSE DecimalText(n \div 10) \o <<DigitChars[(n % 10) + 1]>>

\* F(v), with v evaluated once however often F uses its argument.
Let(v, F(_)) == CHOOSE r \in {F(x) : x \in {v}} : TRUE

Drop(s, k) == IF k >= Len(s) THEN <<>> ELSE SubSeq(s, k + 1, Len(s))

Take(s, k) == IF k >= Len(s) THEN s ELSE SubSeq(s, 1, k)

StartsWith(s, p) == Len(p) <= Len(s) /\ Take(s, Len(p)) = p

\* Python's `sub in s` on strings: a literal, case-sensitive substring.
Contains(s, sub) ==
    \E k \in 0..(Len(s) - Len(sub)) : Take(Drop(s, k), Len(sub)) = sub

(***************************************************************************)
(* The SQL engine: the part of SQLite that get_files relies on.  A         *)
(* statement is SELECT fileID, domain, relativePath, file FROM Files WHERE *)
(* <text>, where <text> is the character sequence the f-strings build.     *)
(***************************************************************************)
NullV == [t |-> "null", n |-> 0, s |-> <<>>]

IntV(n) == [t |-> "int", n |-> n, s |-> <<>>]

TextV(s) == [t |-> "text", n |-> 0, s |-> s]

\* Tokens: [k |-> kind, n |-> integer, s |-> text].  Kinds: "str", "int",
\* "id" (identifier or keyword, folded to lower case), "op" ("=" or "%"),
\* "bad" (what the tokenizer rejects).
Tok(k, n, s) == [k |-> k, n |-> n, s |-> s]

\* The position of the quote that closes the string literal whose body
\* starts at s[i], with '' as an escaped quote; 0 when it is unterminated.
RECURSIVE LitEnd(_, _)
LitEnd(s, i) ==
    IF i > Len(s) THEN 0
    ELSE IF s[i] # "'" THEN LitEnd(s, i + 1)
    ELSE IF i < Len(s) /\ s[i + 1] = "'" THEN LitEnd(s, i + 2)
    ELSE i

\* s[i..j], the body of a literal, with its escaped quotes undone.
RECURSIVE Unescape(_, _, _)
Unescape(s, i, j) ==
    IF i > j THEN <<>>
    ELSE IF s[i] = "'" THEN <<"'">> \o Unescape(s, i + 2, j)
    ELSE <<s[i]>> \o Unescape(s, i + 1, j)

\* The last position of the run of digits (or of identifier characters)
\* that starts at s[i].
RECURSIVE RunEnd(_, _, _)
RunEnd(s, i, digitsOnly) ==
    IF i > Len(s) THEN i - 1
    ELSE IF (IF digitsOnly THEN IsDigit(s[i]) ELSE IsIdChar(s[i]))
         THEN RunEnd(s, i + 1, digitsOnly)
         ELSE i - 1

\* The number the digits of s from s[i] on spell, after acc.
RECURSIVE NumVal(_, _, _)
NumVal(s, i, acc) ==
    IF i > Len(s) \/ ~IsDigit(s[i]) THEN acc
    ELSE NumVal(s, i + 1, acc * 10 + DigitVal(s[i]))

\* The tokens of s from s[i] on; a "bad" token ends them.
RECURSIVE TokensFrom(_, _)
TokensFrom(s, i) ==
    IF i > Len(s) THEN <<>>
    ELSE IF s[i] = " " THEN TokensFrom(s, i + 1)
    ELSE IF s[i] = "'" THEN
        Let(LitEnd(s, i + 1), LAMBDA e :
            IF e = 0 THEN <<Tok("bad", 0, <<>>)>>
            ELSE <<Tok("str", 0, Unescape(s, i + 1, e - 1))>> \o TokensFrom(s, e + 1))
    ELSE IF IsDigit(s[i]) THEN
        Let(RunEnd(s, i, TRUE), LAMBDA d :
            \* digits running into identifier characters are no token
            IF d < Len(s) /\ IsIdChar(s[d + 1]) THEN <<Tok("bad", 0, <<>>)>>
            ELSE <<Tok("int", NumVal(s, i, 0), <<>>)>> \o TokensFrom(s, d + 1))
    ELSE IF IsIdChar(s[i]) THEN
        Let(RunEnd(s, i, FALSE), LAMBDA d :
            <<Tok("id", 0, FoldText(SubSeq(s, i, d)))>> \o TokensFrom(s, d + 1))
    ELSE IF s[i] \in {"=", "%"} THEN
        <<Tok("op", 0, <<s[i]>>)>> \o TokensFrom(s, i + 1)
    ELSE <<Tok("bad", 0, <<>>)>>

Tokenize(text) == Let(text, LAMBDA s : TokensFrom(s, 1))

\* The columns of table Files a WHERE clause can name, folded to lower
\* case, with their declared affinity.  (The blob column `file` is never
\* named outside a literal by the statements of this model.)
TextColumns == { <<"f","i","l","e","i","d">>,
                 <<"d","o","m","a","i","n">>,
                 <<"r","e","l","a","t","i","v","e","p","a","t","h">> }

IntColumns == { <<"f","l","a","g","s">> }

KwAnd == <<"a","n","d">>

KwOr == <<"o","r">>

KwLike == <<"l","i","k","e">>

\* Expression trees: <<"lit", value>>, <<"col", name>>, <<op, left, right>>
\* with op one of "%", "=", "like", "and", "or".  A parse of the tokens from
\* position i: whether it succeeded, the tree, the position after it.
PRes(ok, ast, next) == [ok |-> ok, ast |-> ast, next |-> next]

PFail == PRes(FALSE, <<>>, 0)

ParsePrim(toks, i) ==
    IF i > Len(toks) THEN PFail
    ELSE Let(toks[i], LAMBDA t :
         IF t.k = "str" THEN PRes(TRUE, <<"lit", TextV(t.s)>>, i + 1)
         ELSE IF t.k = "int" THEN PRes(TRUE, <<"lit", IntV(t.n)>>, i + 1)
         ELSE IF t.k = "id" /\ t.s \in TextColumns \cup IntColumns
              THEN PRes(TRUE, <<"col", t.s>>, i + 1)
         ELSE PFail)

\* One precedence level: operands of the level below joined, left to right,
\* by the operators of this level.  Levels, loosest first: OR; AND; = and
\* LIKE; %.
IsOpAt(level, t) ==
    CASE level = 1 -> t.k = "id" /\ t.s = KwOr
      [] level = 2 -> t.k = "id" /\ t.s = KwAnd
      [] level = 3 -> (t.k = "op" /\ t.s = <<"=">>) \/ (t.k = "id" /\ t.s = KwLike)
      [] OTHER     -> t.k = "op" /\ t.s = <<"%">>

OpName(t) ==
    IF t.k = "op" THEN t.s[1]
    ELSE IF t.s = KwOr THEN "or"
    ELSE IF t.s = KwAnd THEN "and"
    ELSE "like"

RECURSIVE ParseLevel(_, _, _)
RECURSIVE ParseTail(_, _, _, _)
ParseLevel(level, toks, i) ==
    IF level = 5 THEN ParsePrim(toks, i)
    ELSE Let(ParseLevel(level + 1, toks, i), LAMBDA l :
         IF l.ok THEN ParseTail(level, l.ast, toks, l.next) ELSE PFail)

ParseTail(level, left, toks, i) ==
    IF i <= Len(toks) /\ IsOpAt(level, toks[i])
    THEN Let(ParseLevel(level + 1, toks, i + 1), LAMBDA r :
         IF r.ok THEN ParseTail(level, <<OpName(toks[i]), left, r.ast>>, toks, r.next)
         ELSE PFail)
    ELSE PRes(TRUE, left, i)

\* The WHERE text prepared: the expression tree, or ok = FALSE when SQLite
\* rejects the statement (unrecognized token, syntax error, no such column).
Prepare(text) ==
    Let(Tokenize(text), LAMBDA toks :
        Let(ParseLevel(1, toks, 1), LAMBDA p :
            IF p.ok /\ p.next = Len(toks) + 1 THEN p ELSE PFail))

\* The integer a text starts with, after leading spaces (0 when none).
RECURSIVE IntPrefix(_, _)
IntPrefix(s, i) ==
    IF i <= Len(s) /\ s[i] = " " THEN IntPrefix(s, i + 1) ELSE NumVal(s, i, 0)

AsInt(v) == IF v.t = "int" THEN v.n ELSE IntPrefix(v.s, 1)

AsText(v) == IF v.t = "int" THEN DecimalText(v.n) ELSE v.s

\* A text that is, as a whole, a decimal integer.
LooksNumeric(s) == s # <<>> /\ \A i \in DOMAIN s : IsDigit(s[i])

\* LIKE: % matches any run of characters, _ exactly one; the caller folds
\* both sides (ASCII letters compare case-insensitively).
RECURSIVE LikeFrom(_, _, _, _)
LikeFrom(p, i, s, j) ==
    IF i > Len(p) THEN j > Len(s)
    ELSE IF p[i] = "%" THEN
        LikeFrom(p, i + 1, s, j) \/ (j <= Len(s) /\ LikeFrom(p, i, s, j + 1))
    ELSE j <= Len(s) /\ (p[i] = "_" \/ p[i] = s[j]) /\ LikeFrom(p, i + 1, s, j + 1)

LikeMatch(pattern, subject) ==
    Let(pattern, LAMBDA p : Let(subject, LAMBDA s : LikeFrom(p, 1, s, 1)))

Bool3(v) ==
    IF v.t = "null" THEN "null" ELSE IF AsInt(v) # 0 THEN "true" ELSE "false"

FromBool(b) == IF b THEN IntV(1) ELSE IntV(0)

Affinity(ast) ==
    IF ast[1] # "col" THEN "none"
    ELSE IF ast[2] \in IntColumns THEN "integer" ELSE "text"

\* The operand v of a comparison after the affinity of the other side is
\* applied to it.
Coerce(v, mine, other) ==
    IF mine = "none" /\ other = "text" /\ v.t = "int" THEN TextV(DecimalText(v.n))
    ELSE IF mine # "integer" /\ other = "integer" /\ v.t = "text" /\ LooksNumeric(v.s)
         THEN IntV(NumVal(v.s, 1, 0))
    ELSE v

ColumnValue(name, row) ==
    IF name = <<"f","l","a","g","s">> THEN IntV(row.flags)
    ELSE IF name = <<"d","o","m","a","i","n">> THEN TextV(row.domain)
    ELSE IF name = <<"f","i","l","e","i","d">> THEN TextV(row.fileID)
    ELSE TextV(row.relativePath)

Apply(op, l, r, affl, affr) ==
    IF op = "and" THEN
        IF Bool3(l) = "false" \/ Bool3(r) = "false" THEN IntV(0)
        ELSE IF Bool3(l) = "null" \/ Bool3(r) = "null" THEN NullV
        ELSE IntV(1)
    ELSE IF op = "or" THEN
        IF Bool3(l) = "true" \/ Bool3(r) = "true" THEN IntV(1)
        ELSE IF Bool3(l) = "null" \/ Bool3(r) = "null" THEN NullV
        ELSE IntV(0)
    ELSE IF l.t = "null" \/ r.t = "null" THEN NullV
    ELSE IF op = "%" THEN
        IF AsInt(r) = 0 THEN NullV ELSE IntV(AsInt(l) % AsInt(r))
    ELSE IF op = "like" THEN
        FromBool(LikeMatch(FoldText(AsText(r)), FoldText(AsText(l))))
    ELSE \* "="
        Let(Coerce(l, affl, affr), LAMBDA a :
        Let(Coerce(r, affr, affl), LAMBDA b :
            FromBool(a.t = b.t /\ a.n = b.n /\ a.s = b.s)))

RECURSIVE Eval(_, _)
Eval(ast, row) ==
    IF ast[1] = "lit" THEN ast[2]
    ELSE IF ast[1] = "col" THEN ColumnValue(ast[2], row)
    ELSE Let(Eval(ast[2], row), LAMBDA l :
         Let(Eval(ast[3], row), LAMBDA r :
             Apply(ast[1], l, r, Affinity(ast[2]), Affinity(ast[3]))))

\* cursor.execute(query).fetchall() on a database whose Files table holds
\* `table` (a sequence of rows, in storage order): the rows the WHERE text
\* accepts, or an OperationalError.
Execute(table, text) ==
    Let(Prepare(text), LAMBDA p :
        IF ~p.ok THEN [ok |-> FALSE, rows |-> <<>>]
        ELSE [ok |-> TRUE,
              rows |-> LET Accept(row) == Bool3(Eval(p.ast, row)) = "true"
                       IN SelectSeq(table, Accept)])

(***************************************************************************)
(* The filesystem.  A Python dict is a function from its keys; {} is the   *)
(* function with no key (<<>>).  A path is the sequence of its components. *)
(***************************************************************************)
EmptyDict == <<>>

HasKey(d, k) == k \in DOMAIN d

\* A property-list file on disk: absent, present but undecodable, or
\* holding a dict.
MissingFile == [st |-> "missing", val |-> EmptyDict]

CorruptFile == [st |-> "corrupt", val |-> EmptyDict]

PlistFile(d) == [st |-> "ok", val |-> d]

\* A Manifest.db: absent, not a database ("junk"), a database without the
\* Files table ("empty"), or one whose Files table holds `table`.
NoDb == [st |-> "absent", table |-> <<>>]

JunkDb == [st |-> "junk", table |-> <<>>]

EmptyDb == [st |-> "empty", table |-> <<>>]

Db(table) == [st |-> "ok", table |-> table]

\* An entry of a backup root: a subdirectory (or a plain file) with the
\* descriptor files, the catalog and the content files under it.  content
\* is the set of <<subdirectory, file name>> pairs that are files.
Entry(name, isdir, manifest, mtime, info, status, db, content) ==
    [name |-> name, is_dir |-> isdir, manifest |-> manifest, mtime |-> mtime,
     info |-> info, status |-> status, db |-> db, content |-> content]

\* len(path.name) of the names the model uses (a udid has 40 characters,
\* or 25 on newer devices).
NameLen(name) ==
    CASE name = "u1" -> 40
      [] name = "u2" -> 25
      [] name = "u3" -> 40
      [] name = "f40" -> 40
      [] OTHER -> 3

Lockdown(name) ==
    [DeviceName |-> name, ProductVersion |-> "16", SerialNumber |-> "S",
     ProductType |-> "iPhone"]

\* A complete Manifest.plist, with the metadata of the applications `apps`.
ManifestDict(name, apps) ==
    [Lockdown |-> Lockdown(name), IsEncrypted |-> FALSE, WasPasscodeSet |-> TRUE,
     Applications |-> [a \in apps |-> [CFBundleIdentifier |-> a]]]

\* A Manifest.plist that decodes but lacks the Lockdown field.
PartialManifestDict == [IsEncrypted |-> FALSE, WasPasscodeSet |-> TRUE]

InfoDict(applist) == ("Installed Applications" :> applist)

StatusDict(name) == [BackupState |-> "new", UUID |-> name]

JoinPath(p, name) == IF name = "" THEN p ELSE Append(p, name)

IsDir(fs, p) ==
    \/ Len(p) = 1 /\ p[1] \in DOMAIN fs.dirs
    \/ Len(p) = 2 /\ p[1] \in DOMAIN fs.dirs
       /\ \E i \in DOMAIN fs.dirs[p[1]] :
            fs.dirs[p[1]][i].name = p[2] /\ fs.dirs[p[1]][i].is_dir

EntryAt(fs, p) ==
    LET es == fs.dirs[p[1]] IN es[CHOOSE i \in DOMAIN es : es[i].name = p[2]]

\* The property-list file `file` of directory p.  Only device directories
\* hold descriptor files; a backup root itself holds none.
PlistAt(fs, p, file) ==
    IF Len(p) = 2 /\ IsDir(fs, p)
    THEN CASE file = "Manifest.plist" -> EntryAt(fs, p).manifest
           [] file = "Info.plist" -> EntryAt(fs, p).info
           [] OTHER -> EntryAt(fs, p).status
    ELSE MissingFile

\* Path.is_file() of the content file p / sub / name.
IsContentFile(fs, p, sub, name) ==
    Len(p) = 2 /\ IsDir(fs, p) /\ <<sub, name>> \in EntryAt(fs, p).content

\* os.path.expandvars: a reference to a set variable is replaced by its
\* value, one to an unset variable is left as it is.
expandvars(fs, path) ==
    IF path = "$BK" /\ "BK" \in DOMAIN fs.env THEN fs.env["BK"] ELSE path

(***************************************************************************)
(* Backup: directory and device                                            *)
(***************************************************************************)
\* The outcome of a method: what it returns or the exception it raises,
\* and the records it logs at WARNING level or above.
Ok(value, log) == [ok |-> TRUE, exc |-> "", value |-> value, log |-> log]

Raise(exc, log) == [ok |-> FALSE, exc |-> exc, value |-> <<>>, log |-> log]

DefaultCandidates(platform) ==
    IF platform = "Darwin" THEN <<"mac">>
    ELSE IF platform = "Windows" THEN <<"win1", "win2", "win3", "win4">>
    ELSE <<>>

_get_default_backup_dir(fs) ==
    LET cands == DefaultCandidates(fs.platform)
        found == {i \in DOMAIN cands : IsDir(fs, <<cands[i]>>)}
    IN
    IF fs.platform \notin {"Darwin", "Windows"} THEN Raise("NotImplementedError", <<>>)
    ELSE IF found = {} THEN Raise("FileNotFoundError", <<>>)
    ELSE Ok(<<cands[CHOOSE i \in found : \A j \in found : i <= j]>>, <<>>)

set_backup_dir(fs, path) ==
    IF path # ""
    THEN IF IsDir(fs, <<expandvars(fs, path)>>)
         THEN Ok(<<expandvars(fs, path)>>, <<>>)
         ELSE Raise("FileNotFoundError", <<>>)
    ELSE _get_default_backup_dir(fs)

LockdownKeys == {"DeviceName", "ProductVersion", "SerialNumber", "ProductType"}

\* No subscript of lines 80-85 raises KeyError.
ManifestComplete(m) ==
    /\ HasKey(m, "Lockdown")
    /\ LockdownKeys \subseteq DOMAIN m["Lockdown"]
    /\ HasKey(m, "IsEncrypted")
    /\ HasKey(m, "WasPasscodeSet")

DeviceInfo(udid, m, mtime) ==
    [udid |-> udid, name |-> m["Lockdown"]["DeviceName"],
     ios |-> m["Lockdown"]["ProductVersion"],
     serial |-> m["Lockdown"]["SerialNumber"],
     type |-> m["Lockdown"]["ProductType"],
     encrypted |-> m["IsEncrypted"], passcodeSet |-> m["WasPasscodeSet"],
     date |-> mtime]

_get_device_info(fs, dir, udid) ==
    LET f == PlistAt(fs, JoinPath(dir, udid), "Manifest.plist") IN
    IF f.st = "missing" THEN Ok(EmptyDict, <<"WARNING">>)
    ELSE IF f.st = "corrupt" \/ ~ManifestComplete(f.val) THEN Ok(EmptyDict, <<"ERROR">>)
    ELSE Ok(DeviceInfo(udid, f.val, EntryAt(fs, JoinPath(dir, udid)).mtime), <<>>)

IsCandidate(e) == e.is_dir /\ NameLen(e.name) \in {25, 40}

RECURSIVE DeviceScan(_, _, _)
DeviceScan(fs, dir, entries) ==
    IF entries = <<>> THEN Ok(<<>>, <<>>)
    ELSE LET rest == DeviceScan(fs, dir, Tail(entries)) IN
         IF IsCandidate(entries[1])
         THEN LET d == _get_device_info(fs, dir, entries[1].name) IN
              Ok(<<d.value>> \o rest.value, d.log \o rest.log)
         ELSE rest

get_device_list(fs, dir) == DeviceScan(fs, dir, fs.dirs[dir[1]])

_load_plist_file(fs, backup_path, file) ==
    LET f == PlistAt(fs, backup_path, file) IN
    IF f.st = "ok" THEN Ok(f.val, <<>>) ELSE Ok(EmptyDict, <<"WARNING">>)

\* sorted(devices, key=lambda d: d["date"]): a stable ascending sort.
RECURSIVE InsertByDate(_, _)
InsertByDate(sorted, d) ==
    IF sorted = <<>> THEN <<d>>
    ELSE IF sorted[Len(sorted)]["date"] <= d["date"] THEN Append(sorted, d)
    ELSE Append(InsertByDate(SubSeq(sorted, 1, Len(sorted) - 1), d), sorted[Len(sorted)])

RECURSIVE SortedByDate(_)
SortedByDate(devices) ==
    IF devices = <<>> THEN <<>>
    ELSE InsertByDate(SortedByDate(SubSeq(devices, 1, Len(devices) - 1)),
                      devices[Len(devices)])

\* Lines 126-140: the device set_device chooses, or the KeyError of a
\* subscript on a descriptor that is {}.
ChooseDevice(devices, udid) ==
    IF \E i \in DOMAIN devices : ~HasKey(devices[i], "udid")
    THEN Raise("KeyError", <<>>)
    ELSE LET udids == [i \in DOMAIN devices |-> devices[i]["udid"]] IN
         IF udid = "" \/ udid \notin Range(udids)
         THEN IF Len(devices) < 1 THEN Ok(EmptyDict, <<"ERROR">>)
              ELSE IF Len(devices) = 1 THEN Ok(devices[1], <<>>)
              ELSE Ok(SortedByDate(devices)[Len(devices)], <<>>)
         ELSE Ok(devices[CHOOSE i \in DOMAIN udids :
                             udids[i] = udid /\ \A j \in 1..(i - 1) : udids[j] # udid],
                 <<>>)

_get_apps(info, manifest) ==
    LET app_list == IF HasKey(info, "Installed Applications")
                    THEN info["Installed Applications"] ELSE <<>>
        app_info == IF HasKey(manifest, "Applications")
                    THEN manifest["Applications"] ELSE EmptyDict
    IN [app \in Range(app_list) |->
            IF HasKey(app_info, app) THEN app_info[app] ELSE EmptyDict]

\* The fields set_device assigns (lines 142-153), as a record, and what it
\* returns.
set_device(fs, dir, udid) ==
    LET listed == get_device_list(fs, dir)
        chosen == ChooseDevice(listed.value, udid)
    IN
    IF ~chosen.ok THEN Raise(chosen.exc, listed.log \o chosen.log)
    ELSE LET device == chosen.value
             id == IF HasKey(device, "udid") THEN device["udid"] ELSE ""
             path == JoinPath(dir, id)
             m == _load_plist_file(fs, path, "Manifest.plist")
             i == _load_plist_file(fs, path, "Info.plist")
             s == _load_plist_file(fs, path, "Status.plist")
         IN [ok |-> TRUE, exc |-> "", value |-> device,
             log |-> listed.log \o chosen.log \o m.log \o i.log \o s.log,
             backup_path |-> path, manifest |-> m.value, info |-> i.value,
             status |-> s.value, apps |-> _get_apps(i.value, m.value),
             manifest_db |-> JoinPath(path, "Manifest.db")]

(***************************************************************************)
(* Backup: the file catalog                                                *)
(***************************************************************************)
AppDomainPrefix == <<"A","p","p","D","o","m","a","i","n","-">>

_get_app_domain(app) == IF app # <<>> THEN AppDomainPrefix \o app ELSE <<>>

\* Lines 214-228: the text of the statement after WHERE.  A line break of
\* the source is written as a space.
QueryText(app, domain, relative_path, file_flag) ==
    LET app_domain == _get_app_domain(app) IN
    <<"f","l","a","g","s"," ","="," ">> \o DecimalText(file_flag) \o <<" ">>
    \o (IF app_domain # <<>>
        THEN <<" ","A","N","D"," ","d","o","m","a","i","n"," ","="," ","'">>
             \o app_domain \o <<"'">>
        ELSE <<>>)
    \o (IF domain # <<>>
        THEN <<" ","A","N","D"," ","d","o","m","a","i","n"," ",
               "L","I","K","E"," ","'","%">> \o domain \o <<"%","'">>
        ELSE <<>>)
    \o (IF relative_path # <<>>
        THEN <<" ","A","N","D"," ","r","e","l","a","t","i","v","e","P","a","t","h"," ",
               "L","I","K","E"," ","'","%">> \o relative_path \o <<"%","'">>
        ELSE <<>>)

\* Lines 230-233: connect, execute, fetchall.  A database file that does
\* not exist is created empty by connect, so all but a file that is no
\* database reach the statement; a database without the Files table
\* rejects it as it rejects a malformed one.
Fetch(db, text) ==
    IF db.st = "junk" THEN Raise("DatabaseError", <<>>)
    ELSE IF db.st # "ok" THEN Raise("OperationalError", <<>>)
    ELSE Let(Execute(db.table, text), LAMBDA e :
         IF e.ok THEN Ok(e.rows, <<>>) ELSE Raise("OperationalError", <<>>))

\* dict(file) of a fetched sqlite3.Row: the four selected columns.
RowDict(row) == [k \in {"fileID", "domain", "relativePath", "file"} |-> row[k]]

SetItem(d, k, v) == (k :> v) @@ d

DelItem(d, k) == [x \in DOMAIN d \ {k} |-> d[x]]

\* A path under the device directory: backup_path.joinpath(sub, name).
ContentPath(backup_path, sub, name) == [dir |-> backup_path, sub |-> sub, name |-> name]

_parse_file_path_unchecked(fs, backup_path, id) ==
    Ok(ContentPath(backup_path, Take(id, 2), id), <<>>)

_parse_file_path(fs, backup_path, id) ==
    IF IsContentFile(fs, backup_path, Take(id, 2), id)
    THEN Ok(ContentPath(backup_path, Take(id, 2), id), <<>>)
    ELSE Raise("AssertionError", <<>>)

\* A catalog blob: an embedded property list (a keyed archive whose second
\* object holds the file's size), or bytes that plistlib cannot decode.
Blob(valid, size) == [valid |-> valid, size |-> size]

_parse_file_info(file_blob) ==
    IF file_blob.valid
    THEN Ok(("$objects" :> <<"$null", [Size |-> file_blob.size]>>), <<>>)
    ELSE Raise("InvalidFileException", <<>>)

\* Lines 239-240.
AddPaths(fs, backup_path, files) ==
    IF \E i \in DOMAIN files : ~_parse_file_path(fs, backup_path, files[i]["fileID"]).ok
    THEN Raise("AssertionError", <<>>)
    ELSE Ok([i \in DOMAIN files |->
                SetItem(files[i], "path",
                        _parse_file_path(fs, backup_path, files[i]["fileID"]).value)],
            <<>>)

\* Lines 245-246.
AddInfos(files) ==
    IF \E i \in DOMAIN files : ~_parse_file_info(files[i]["file"]).ok
    THEN Raise("InvalidFileException", <<>>)
    ELSE Ok([i \in DOMAIN files |->
                SetItem(files[i], "info", _parse_file_info(files[i]["file"]).value)],
            <<>>)

KeepBlobs(files) == files

\* Lines 247-248.
DropBlobs(files) == [i \in DOMAIN files |-> DelItem(files[i], "file")]

\* Lines 235-250, on the fetched rows.
Resolve(fs, backup_path, rows, file_flag, real_path, file_info) ==
    IF rows = <<>> THEN Ok(<<>>, <<>>)
    ELSE LET dicts == [i \in DOMAIN rows |-> RowDict(rows[i])]
             pathed == IF real_path /\ file_flag = 1
                       THEN AddPaths(fs, backup_path, dicts)
                       ELSE Ok(dicts, IF real_path THEN <<"WARNING">> ELSE <<>>)
         IN
         IF ~pathed.ok THEN pathed
         ELSE LET infoed == IF file_info THEN AddInfos(pathed.value)
                            ELSE Ok(pathed.value, <<>>)
              IN
              IF ~infoed.ok THEN Raise(infoed.exc, pathed.log)
              ELSE Ok(DropBlobs(infoed.value), pathed.log)

DbOf(fs, manifest_db) ==
    LET p == SubSeq(manifest_db, 1, Len(manifest_db) - 1) IN
    IF Len(p) = 2 /\ IsDir(fs, p) THEN EntryAt(fs, p).db ELSE NoDb

get_files(fs, backup_path, manifest_db, app, domain, relative_path, file_flag, real_path, file_info) ==
    Let(Fetch(DbOf(fs, manifest_db), QueryText(app, domain, relative_path, file_flag)),
        LAMBDA fetched :
          IF ~fetched.ok THEN fetched
          ELSE Resolve(fs, backup_path, fetched.value, file_flag, real_path, file_info))

(***************************************************************************)
(* The demo: src/demo/home.py                                              *)
(***************************************************************************)
get_file_size(info) ==
    IF HasKey(info, "$objects") /\ Len(info["$objects"]) >= 2
       /\ HasKey(info["$objects"][2], "Size")
    THEN info["$objects"][2]["Size"]
    ELSE 0

\* pd.DataFrame(files, columns=["domain", "relativePath", "info"]) with the
\* size column added.
DataFrame(files) ==
    [i \in DOMAIN files |->
        [domain |-> files[i]["domain"], relativePath |-> files[i]["relativePath"],
         info |-> files[i]["info"], size |-> get_file_size(files[i]["info"])]]

\* Series.unique(): the distinct values, in order of first appearance.
RECURSIVE Unique(_)
Unique(s) ==
    IF s = <<>> THEN <<>>
    ELSE LET init == Unique(SubSeq(s, 1, Len(s) - 1)) IN
         IF s[Len(s)] \in Range(init) THEN init ELSE Append(init, s[Len(s)])

AppDomanPrefix == <<"A","p","p","D","o","m","a","n","-">>

DomainsWithPrefix(manifest, prefix) ==
    LET Has(r) == StartsWith(r.domain, prefix)
        sel == SelectSeq(manifest, Has)
    IN Unique([i \in DOMAIN sel |-> sel[i].domain])

get_app_list(info, manifest) ==
    IF info # EmptyDict
    THEN IF HasKey(info, "Installed Applications")
         THEN Ok(info["Installed Applications"], <<>>)
         ELSE Raise("KeyError", <<>>)
    ELSE Ok(DomainsWithPrefix(manifest, AppDomanPrefix), <<>>)

(***************************************************************************)
(* The backups on disk the model is run against.  A world is described by  *)
(* a small record; WorldOf gives the filesystem it stands for.             *)
(***************************************************************************)
MaxDate == 2

AppA == <<"a">>

AppB == <<"b">>

RowA1 == [fileID |-> <<"a","b","1">>, domain |-> AppDomainPrefix \o AppA,
          relativePath |-> <<"a">>, flags |-> 1, file |-> Blob(TRUE, 1)]

RowA2 == [fileID |-> <<"c","d","2">>, domain |-> AppDomainPrefix \o <<"A">>,
          relativePath |-> <<"A">>, flags |-> 1, file |-> Blob(TRUE, 2)]

RowH3 == [fileID |-> <<"e","f","3">>, domain |-> <<"H","o","m","e">>,
          relativePath |-> <<"b">>, flags |-> 2, file |-> Blob(TRUE, 0)]

RowA4 == [fileID |-> <<"a","b","4">>, domain |-> AppDomainPrefix \o AppA,
          relativePath |-> <<"a","b">>, flags |-> 1, file |-> Blob(FALSE, 0)]

\* The catalogs: no database, no database file content, no Files table, an
\* empty table, a table whose blobs all decode, and one with a bad blob.
Catalog(c) ==
    CASE c = "absent" -> NoDb
      [] c = "junk" -> JunkDb
      [] c = "notable" -> EmptyDb
      [] c = "norows" -> Db(<<>>)
      [] c = "good" -> Db(<<RowA1, RowA2, RowH3>>)
      [] OTHER -> Db(<<RowA1, RowA2, RowH3, RowA4>>)

ContentOf(row) == <<Take(row.fileID, 2), row.fileID>>

\* The content files on disk: of every file row, of every one but the
\* first, or of none.
Content(c) ==
    CASE c = "all" -> {ContentOf(RowA1), ContentOf(RowA2), ContentOf(RowA4)}
      [] c = "partial" -> {ContentOf(RowA2), ContentOf(RowA4)}
      [] OTHER -> {}

InfoFile(c) ==
    CASE c = "missing" -> MissingFile
      [] c = "nokey" -> PlistFile([Product |-> "iTunes"])
      [] c = "noapps" -> PlistFile(InfoDict(<<>>))
      [] OTHER -> PlistFile(InfoDict(<<AppA, AppB>>))

SlotNames == <<"u1", "u2", "u3">>

\* The device directory of slot i: mtime > 0 is a readable descriptor with
\* that modification time, -1 an unreadable one (absent, undecodable, or
\* without Lockdown, by slot).
SlotEntry(i, mtime, d) ==
    LET name == SlotNames[i]
        manifest == IF mtime > 0 THEN PlistFile(ManifestDict(name, {AppA}))
                    ELSE IF i = 1 THEN MissingFile
                    ELSE IF i = 2 THEN CorruptFile
                    ELSE PlistFile(PartialManifestDict)
    IN IF i = 1
       THEN Entry(name, TRUE, manifest, mtime, InfoFile(d.info),
                  PlistFile(StatusDict(name)), Catalog(d.catalog), Content(d.content))
       ELSE Entry(name, TRUE, manifest, mtime, PlistFile(InfoDict(<<AppB>>)),
                  MissingFile, NoDb, {})

RECURSIVE SlotEntries(_, _)
SlotEntries(i, d) ==
    IF i > Len(d.slots) THEN <<>>
    ELSE (IF d.slots[i] = 0 THEN <<>> ELSE <<SlotEntry(i, d.slots[i], d)>>)
         \o SlotEntries(i + 1, d)

\* Root r1: a stray directory, a plain file with a udid-long name, and the
\* device directories of the slots.  Root r2: two readable devices, the
\* older one first.  The default directories that exist are empty.
Root1(d) ==
    << Entry("tmp", TRUE, MissingFile, 1, MissingFile, MissingFile, NoDb, {}),
       Entry("f40", FALSE, MissingFile, 1, MissingFile, MissingFile, NoDb, {}) >>
    \o SlotEntries(1, d)

Root2 ==
    << Entry("u2", TRUE, PlistFile(ManifestDict("u2", {AppB})), 1,
             PlistFile(InfoDict(<<AppB>>)), PlistFile(StatusDict("u2")), NoDb, {}),
       Entry("u1", TRUE, PlistFile(ManifestDict("u1", {})), 2,
             MissingFile, PlistFile(StatusDict("u1")), NoDb, {}) >>

World(d) ==
    [platform |-> d.platform,
     env |-> IF d.env THEN ("BK" :> "r2") ELSE EmptyDict,
     dirs |-> [r \in {"r1", "r2"} \cup d.defaults |->
                  IF r = "r1" THEN Root1(d) ELSE IF r = "r2" THEN Root2 ELSE <<>>]]

Descr(slots, catalog, content, info, platform, defaults, env) ==
    [slots |-> slots, catalog |-> catalog, content |-> content, info |-> info,
     platform |-> platform, defaults |-> defaults, env |-> env]

SlotValues == {-1} \cup 0..MaxDate

\* Worlds that differ in the devices of r1.
DeviceWorlds ==
    { Descr(<<a, b, c>>, "absent", "none", "apps", "Linux", {}, FALSE) :
        a \in SlotValues, b \in SlotValues, c \in SlotValues }

\* Worlds that differ in the catalog and the content files of the one
\* device of r1, or in its Info.plist.
FileWorlds ==
    { Descr(<<1, 0, 0>>, cc[1], cc[2], cc[3], "Linux", {}, FALSE) :
        cc \in { <<"junk", "none", "apps">>, <<"notable", "none", "apps">>,
                 <<"norows", "none", "apps">>, <<"good", "all", "apps">>,
                 <<"good", "partial", "apps">>, <<"good", "none", "apps">>,
                 <<"badblob", "all", "apps">>, <<"good", "all", "missing">>,
                 <<"good", "all", "nokey">>, <<"good", "all", "noapps">>,
                 <<"norows", "none", "missing">> } }

\* Worlds that differ in the platform, its default directories and the
\* environment.
PlatformWorlds ==
    { Descr(<<1, 0, 0>>, "absent", "none", "apps", pd[1], pd[2], e) :
        pd \in { <<"Linux", {}>>, <<"Darwin", {}>>, <<"Darwin", {"mac"}>>,
                 <<"Windows", {}>>, <<"Windows", {"win3"}>>,
                 <<"Windows", {"win2", "win4"}>> },
        e \in BOOLEAN }

Worlds == DeviceWorlds \cup FileWorlds \cup PlatformWorlds

WorldOf == [d \in Worlds |-> World(d)]

\* The arguments the operations are called with.
PathArgs == {"", "r1", "r2", "nx", "$BK"}

UdidArgs == {"", "u1", "u2", "u3", "zz"}

AppArgs == {<<>>, AppA}

DomainArgs == {<<>>, <<"a","p","p">>, <<"'"," ","O","R"," ","'","1">>}

RelPathArgs == {<<>>, <<"A">>, <<"_">>, <<"'">>}

FlagArgs == {1, 2, 4}

(***************************************************************************)
(* The state                                                               *)
(***************************************************************************)
VARIABLES
    world,          \* the description of the filesystem (it does not change)
    phase,          \* "new": no Backup yet; "live"; "failed": __init__ raised
    backup_dir, backup_path, manifest, info, status, apps, manifest_db,
    selected,       \* the udid of the device set_device selected last
    call,           \* the operation in progress or just ended, with its arguments
    outcome,        \* "idle", or how the call ended: "returned", "raised"
    exc,            \* the exception raised
    value,          \* the value returned
    log,            \* the records the call logged at WARNING level or above
    conn,           \* the connection the call opened: "none", "open", "closed"
    ss_manifest, ss_app_list,   \* the demo's session state
    cache_db, cache_apps        \* the demo's st.cache_data stores

fields == <<backup_dir, backup_path, manifest, info, status, apps, manifest_db, selected>>

demo == <<ss_manifest, ss_app_list, cache_db, cache_apps>>

vars == <<world, phase, fields, call, outcome, exc, value, log, conn, demo>>

FS == WorldOf[world]

NoCall == [op |-> "none", path |-> "", udid |-> "", app |-> <<>>, domain |-> <<>>,
           relative_path |-> <<>>, file_flag |-> 0, real_path |-> FALSE,
           file_info |-> FALSE]

Unset == [set |-> FALSE, val |-> <<>>]

Set(v) == [set |-> TRUE, val |-> v]

InitIn(worlds) ==
    /\ world \in worlds
    /\ phase = "new"
    /\ backup_dir = <<>> /\ backup_path = <<>> /\ manifest_db = <<>>
    /\ manifest = EmptyDict /\ info = EmptyDict /\ status = EmptyDict
    /\ apps = EmptyDict /\ selected = ""
    /\ call = NoCall /\ outcome = "idle" /\ exc = "" /\ value = <<>> /\ log = <<>>
    /\ conn = "none"
    /\ ss_manifest = Unset /\ ss_app_list = Unset
    /\ cache_db = Unset /\ cache_apps = {}

(***************************************************************************)
(* The operations                                                          *)
(***************************************************************************)
\* How a call ended, for the caller to see.
Ended(c, r) ==
    /\ call' = c
    /\ outcome' = IF r.ok THEN "returned" ELSE "raised"
    /\ exc' = r.exc
    /\ value' = r.value
    /\ log' = r.log

\* The assignments of set_device, lines 143-153.
Assign(r) ==
    /\ backup_path' = r.backup_path
    /\ manifest' = r.manifest
    /\ info' = r.info
    /\ status' = r.status
    /\ apps' = r.apps
    /\ manifest_db' = r.manifest_db
    /\ selected' = IF HasKey(r.value, "udid") THEN r.value["udid"] ELSE ""

\* Backup(path, udid): __init__, lines 23-25.  An object whose __init__
\* raises is never handed to the caller.
Construct(path, udid) ==
    /\ outcome = "idle"
    /\ phase # "live"
    /\ \E d \in {set_backup_dir(FS, path)} :
       \E r \in {IF d.ok THEN set_device(FS, d.value, udid) ELSE d} :
          /\ Ended([NoCall EXCEPT !.op = "__init__", !.path = path, !.udid = udid],
                   [r EXCEPT !.value = <<>>])
          /\ IF r.ok
             THEN phase' = "live" /\ backup_dir' = d.value /\ Assign(r)
             ELSE phase' = "failed" /\ UNCHANGED fields
    /\ UNCHANGED <<world, conn, demo>>

SetBackupDir(path) ==
    /\ outcome = "idle"
    /\ phase = "live"
    /\ \E d \in {set_backup_dir(FS, path)} :
       /\ Ended([NoCall EXCEPT !.op = "set_backup_dir", !.path = path], d)
       /\ backup_dir' = IF d.ok THEN d.value ELSE backup_dir
    /\ UNCHANGED <<world, phase, backup_path, manifest, info, status, apps,
                   manifest_db, selected, conn, demo>>

SetDevice(udid) ==
    /\ outcome = "idle"
    /\ phase = "live"
    /\ \E r \in {set_device(FS, backup_dir, udid)} :
       /\ Ended([NoCall EXCEPT !.op = "set_device", !.udid = udid], r)
       /\ IF r.ok THEN Assign(r)
          ELSE UNCHANGED <<backup_path, manifest, info, status, apps, manifest_db,
                           selected>>
    /\ UNCHANGED <<world, phase, backup_dir, conn, demo>>

\* The connection a get_files call opened, when the call ends.  Leaving the
\* `with` block commits or rolls back and closes nothing.  When the call
\* raises, the traceback keeps its frame, and with it the connection, alive.
\* When it returns, the frame's reference is dropped: a runtime that
\* finalises the connection at once closes it, any other leaves it to the
\* garbage collector.
Release(raised) ==
    conn' \in (IF raised THEN {"open"} ELSE {"open", "closed"})

GetFiles(app, domain, relative_path, file_flag, real_path, file_info) ==
    /\ outcome = "idle"
    /\ phase = "live"
    /\ \E r \in {get_files(FS, backup_path, manifest_db, app, domain, relative_path,
                          file_flag, real_path, file_info)} :
          /\ Ended([NoCall EXCEPT !.op = "get_files", !.app = app, !.domain = domain,
                                  !.relative_path = relative_path,
                                  !.file_flag = file_flag, !.real_path = real_path,
                                  !.file_info = file_info], r)
          /\ Release(~r.ok)
    /\ UNCHANGED <<world, phase, fields, demo>>

\* src/demo/home.py lines 87-89: read_backup_manifest_db() and
\* get_app_list(ss.manifest), both behind st.cache_data.  The first is keyed
\* by nothing, the second by the manifest alone.
LoadManifest ==
    /\ outcome = "idle"
    /\ phase = "live"
    /\ DbOf(FS, manifest_db).st # "absent"
    /\ \E r \in {IF cache_db.set THEN Ok(<<>>, <<>>)
                ELSE get_files(FS, backup_path, manifest_db, <<>>, <<>>, <<>>,
                               1, FALSE, TRUE)} :
       IF ~r.ok
       THEN /\ Ended([NoCall EXCEPT !.op = "demo"], r)
            /\ Release(TRUE)
            /\ UNCHANGED demo
       ELSE \E df \in {IF cache_db.set THEN cache_db.val ELSE DataFrame(r.value)} :
            \E a \in {LET hit == {e \in cache_apps : e.key = df} IN
                       IF hit # {} THEN Ok((CHOOSE e \in hit : TRUE).val, <<>>)
                       ELSE get_app_list(info, df)} :
            /\ IF cache_db.set THEN conn' = "none" ELSE Release(FALSE)
            /\ cache_db' = Set(df)
            /\ ss_manifest' = Set(df)
            /\ Ended([NoCall EXCEPT !.op = "demo"], [a EXCEPT !.log = r.log])
            /\ IF a.ok
               THEN /\ ss_app_list' = Set(a.value)
                    /\ cache_apps' = cache_apps \cup {[key |-> df, val |-> a.value]}
               ELSE UNCHANGED <<ss_app_list, cache_apps>>
    /\ UNCHANGED <<world, phase, fields>>

\* The caller takes the result, or handles the exception, and goes on.  The
\* model does not follow a connection past this point: a connection left
\* open is closed whenever the garbage collector finalises it.
Continue ==
    /\ outcome # "idle"
    /\ call' = NoCall /\ outcome' = "idle" /\ exc' = "" /\ value' = <<>> /\ log' = <<>>
    /\ conn' = "none"
    /\ UNCHANGED <<world, phase, fields, demo>>

\* The catalog specification: the backups that differ in the catalog of
\* their device, every get_files argument, and the demo.
Init == InitIn(FileWorlds)

Next ==
    \/ \E path \in {"r1", "nx"}, udid \in {"", "u1"} : Construct(path, udid)
    \/ \E path \in {"r1", "nx"} : SetBackupDir(path)
    \/ \E udid \in {"", "u1"} : SetDevice(udid)
    \/ \E app \in AppArgs, domain \in DomainArgs, relative_path \in RelPathArgs,
          file_flag \in FlagArgs, real_path \in BOOLEAN, file_info \in BOOLEAN :
            GetFiles(app, domain, relative_path, file_flag, real_path, file_info)
    \/ LoadManifest
    \/ Continue

Spec == Init /\ [][Next]_vars

\* The device specification: the backups that differ in their devices and
\* in the platform, every path and udid argument, and get_files without
\* filters.
InitDevices == InitIn(DeviceWorlds \cup PlatformWorlds)

NextDevices ==
    \/ \E path \in PathArgs, udid \in UdidArgs : Construct(path, udid)
    \/ \E path \in PathArgs : SetBackupDir(path)
    \/ \E udid \in UdidArgs : SetDevice(udid)
    \/ \E file_flag \in FlagArgs, real_path \in BOOLEAN :
            GetFiles(<<>>, <<>>, <<>>, file_flag, real_path, FALSE)
    \/ Continue

SpecDevices == InitDevices /\ [][NextDevices]_vars

(***************************************************************************)
(* Properties of device selection (SpecDevices)                            *)
(***************************************************************************)
\* The call that has just ended.
CallEnded(op) == call.op = op /\ outcome # "idle"

CallReturned(op) == call.op = op /\ outcome = "returned"

\* The device list a set_device call on the current directory discovers.
Discovered == get_device_list(FS, backup_dir).value

\* The selection policy as it is specified: the requested device if it was
\* discovered; else the only one; else the latest, the last of the latest in
\* enumeration order; else nothing.
SelectionPolicy(devices, udid) ==
    LET match == {i \in DOMAIN devices :
                     HasKey(devices[i], "udid") /\ devices[i]["udid"] = udid}
        dated == {i \in DOMAIN devices : HasKey(devices[i], "date")}
        latest == {i \in dated :
                      \A j \in dated : devices[j]["date"] <= devices[i]["date"]}
    IN IF udid # "" /\ match # {} THEN devices[CHOOSE i \in match : TRUE]
       ELSE IF Len(devices) = 1 THEN devices[1]
       ELSE IF latest # {} THEN devices[CHOOSE i \in latest : \A j \in latest : j <= i]
       ELSE EmptyDict

\* C1: for every list of discovered descriptors and every requested udid,
\* set_device returns the device the ordered policy selects: the requested
\* one when discovered, else the only one, else the latest (the last of the
\* latest), else the empty result.
C1_SelectsByPolicy ==
    CallEnded("set_device") =>
        /\ outcome = "returned"
        /\ value = SelectionPolicy(Discovered, call.udid)

\* C2: on every existing backup root, whatever its device directories hold,
\* and for every requested udid, set_device and the construction of a Backup
\* complete without raising.
C2_NeverRaises ==
    /\ CallEnded("set_device") => outcome = "returned"
    /\ (CallEnded("__init__") /\ set_backup_dir(FS, call.path).ok) => outcome = "returned"

\* C10: in every state after construction the device context is consistent:
\* backup_path is backup_dir joined with the udid of the device selected
\* last, manifest_db is backup_path/Manifest.db, and manifest, info, status
\* and apps are the ones loaded from that backup_path.
C10_ContextConsistent ==
    phase = "live" =>
        /\ backup_path = JoinPath(backup_dir, selected)
        /\ manifest_db = JoinPath(backup_path, "Manifest.db")
        /\ manifest = _load_plist_file(FS, backup_path, "Manifest.plist").value
        /\ info = _load_plist_file(FS, backup_path, "Info.plist").value
        /\ status = _load_plist_file(FS, backup_path, "Status.plist").value
        /\ apps = _get_apps(info, manifest)

(***************************************************************************)
(* Properties of the file catalog and of the demo (Spec)                   *)
(***************************************************************************)
\* The rows the statement of the call that has just ended fetches.
Matched ==
    Fetch(DbOf(FS, manifest_db),
          QueryText(call.app, call.domain, call.relative_path, call.file_flag))

IsFileOf(id) == IsContentFile(FS, backup_path, Take(id, 2), id)

FileIDs(rows) == {rows[i]["fileID"] : i \in DOMAIN rows}

\* C3: with a non-empty app argument A, whatever the other filters, every
\* returned record's domain is exactly "AppDomain-" followed by A.
C3_AppDomainExact ==
    (CallReturned("get_files") /\ call.app # <<>>) =>
        \A i \in DOMAIN value : value[i]["domain"] = AppDomainPrefix \o call.app

\* A row satisfies the filters as they are specified: its flags are
\* file_flag, and its domain and relativePath contain the non-empty
\* arguments as literal substrings.
SatisfiesFilters(row, domain, relative_path, file_flag) ==
    /\ row.flags = file_flag
    /\ domain = <<>> \/ Contains(row.domain, domain)
    /\ relative_path = <<>> \/ Contains(row.relativePath, relative_path)

\* C4: get_files with real_path=False (and no app argument, no file_info,
\* no quote in a filter argument) on a catalog with a Files table returns,
\* and returns exactly the rows
\* whose flags equal file_flag and whose domain and relativePath contain the
\* non-empty filter arguments as literal substrings; on an empty table that
\* is the empty list.
C4_ExactRows ==
    (CallEnded("get_files") /\ ~call.real_path /\ ~call.file_info /\ call.app = <<>>
        /\ "'" \notin Range(call.domain) \cup Range(call.relative_path)
        /\ DbOf(FS, manifest_db).st = "ok") =>
        LET table == DbOf(FS, manifest_db).table
            expected == {table[i]["fileID"] : i \in
                            {j \in DOMAIN table :
                                SatisfiesFilters(table[j], call.domain,
                                                 call.relative_path, call.file_flag)}}
        IN /\ outcome = "returned"
           /\ FileIDs(value) = expected
           /\ Len(value) = Cardinality(expected)

\* C5: a get_files call with file_flag=1 and real_path=True that returns
\* gives every matched row, each with a path equal to
\* backup_path/fileID[0:2]/fileID that is a file on disk; if the content
\* file of any matched row is absent the call raises.
C5_PathsResolved ==
    (CallEnded("get_files") /\ call.file_flag = 1 /\ call.real_path) =>
        /\ outcome = "returned" =>
              /\ Matched.ok /\ FileIDs(value) = FileIDs(Matched.value)
              /\ Len(value) = Len(Matched.value)
              /\ \A i \in DOMAIN value :
                    /\ HasKey(value[i], "path")
                    /\ value[i]["path"] =
                          ContentPath(backup_path, Take(value[i]["fileID"], 2),
                                      value[i]["fileID"])
                    /\ IsFileOf(value[i]["fileID"])
        /\ (Matched.ok /\ \E i \in DOMAIN Matched.value : ~IsFileOf(Matched.value[i]["fileID"]))
              => outcome = "raised"

\* A call with file_flag=1 and real_path=True returned several records.
C5_Witness ==
    /\ CallReturned("get_files") /\ call.file_flag = 1 /\ call.real_path
    /\ Len(value) >= 2

\* C6: a get_files call with real_path=True and file_flag other than 1,
\* however many rows match, returns no record with a path and logs exactly
\* one warning.
C6_OneWarning ==
    (CallReturned("get_files") /\ call.real_path /\ call.file_flag # 1) =>
        /\ \A i \in DOMAIN value : ~HasKey(value[i], "path")
        /\ log = <<"WARNING">>

\* C7: no record get_files returns has the `file` key; its keys are fileID,
\* domain, relativePath and, when requested, path and info.
C7_NoBlobReturned ==
    CallReturned("get_files") =>
        \A i \in DOMAIN value :
            /\ ~HasKey(value[i], "file")
            /\ {"fileID", "domain", "relativePath"} \subseteq DOMAIN value[i]
            /\ DOMAIN value[i] \subseteq
                  {"fileID", "domain", "relativePath"}
                  \cup (IF call.real_path THEN {"path"} ELSE {})
                  \cup (IF call.file_info THEN {"info"} ELSE {})

\* A call with both options on returned records that carry path and info.
C7_Witness ==
    /\ CallReturned("get_files") /\ call.real_path /\ call.file_info
    /\ value # <<>>
    /\ HasKey(value[1], "path") /\ HasKey(value[1], "info")

\* C8: once the catalog listing is loaded, the app listing is the info
\* descriptor's installed-application list when that is present and
\* non-empty; otherwise, when the listing has domains that start with
\* "AppDomain-", it is a non-empty list.
C8_AppListFallback ==
    (CallEnded("demo") /\ ss_manifest.set) =>
        IF HasKey(info, "Installed Applications") /\ info["Installed Applications"] # <<>>
        THEN outcome = "returned" /\ value = info["Installed Applications"]
        ELSE DomainsWithPrefix(ss_manifest.val, AppDomainPrefix) # <<>>
                => (outcome = "returned" /\ value # <<>>)

\* C9: the connection a get_files call opened is closed when the call has
\* returned or raised.
C9_ConnectionClosed ==
    CallEnded("get_files") => conn = "closed"

====
